---- MODULE Spec2Model ----
(***************************************************************************)
(* Model of the chat pipeline of the document assistant:                   *)
(*   - the client side of one conversation (page.tsx state, ChatView's     *)
(*     handleSubmit and the clear-history button),                         *)
(*   - the server side of one chat request (POST of api/chat/route.ts):    *)
(*     memory management, reformulation, embedding, vector search,         *)
(*     context assembly, generation and the trailer sentinels.             *)
(* Every await of the handler is a step of its own; the collaborators      *)
(* (completion service, embedding service, vector index) answer with a     *)
(* nondeterministic outcome.                                               *)
(***************************************************************************)
EXTENDS Integers, Sequences, FiniteSets, TLC

\* ---------------------------------------------------------------- bounds
\* Largest number of messages the conversation may hold (user + assistant).
MaxMsgs == 14
\* Largest number of text fragments the model streams for one answer.
MaxChunks == 2
\* Largest number of matches the vector index returns in the chat pipeline.
MaxMatches == 2
\* Largest number of matches in the context-assembly specification.
MaxResults == 4
\* Largest number of messages in the body of a request sent to POST directly.
MaxBodyMsgs == 11
\* Largest number of matches with arbitrary metadata.
MaxRaw == 3
MaxUploads == 3       \* uploads over all sessions
MaxChildren == 2      \* child chunks of one uploaded file
MaxAnswerPieces == 2  \* pieces of an answer text
MaxSummaryPieces == 2 \* pieces of a summary text
MaxCount == 1         \* msgCount of an encoded memory state
MaxJunk == 2          \* pieces of a payload that is not JSON
MaxSplitAnswer == 1   \* pieces of an answer text read in several reads
MaxReads == 4         \* reads of one response body
MaxConvs == 3         \* conversations created in one page session
MaxRequests == 3      \* chat requests issued in one page session
\* Longest text given to the chunker, largest chunk size, largest overlap.
MaxTextLen == 5
MaxSize == 2
MaxOverlap == 1
\* Most full batches of one upload.
MaxBatches == 2

\* ------------------------------------------------------ program constants
MAX_RECENT == 6
\* route.ts 156: topK passed to queryChunks
TOP_K == 10
\* chunker.ts 155: the vectors of one upsert call
BATCH == 100

\* --------------------------------------------------------------- helpers
Min(a, b) == IF a < b THEN a ELSE b
Max(a, b) == IF a > b THEN a ELSE b

\* Array.prototype.slice(start, end) on an array of length len, as the set of
\* (0-based) positions it keeps: negative arguments count from the end, and
\* both are clamped to [0, len].
SliceIdx(len, start, end) ==
    LET s == IF start < 0 THEN Max(len + start, 0) ELSE Min(start, len)
        e == IF end < 0 THEN Max(len + end, 0) ELSE Min(end, len)
    IN  {i \in 0..(len - 1) : s <= i /\ i < e}

\* Token counts of one completion call (res.usage?.x ?? 0).
ZeroTokens == [prompt |-> 0, completion |-> 0]
SomeTokens == [prompt |-> 2, completion |-> 1]
TokenChoices == {ZeroTokens, SomeTokens}

\* createConversation(): the token usage of a fresh conversation.
ZeroUsage == [prompt |-> 0, completion |-> 0, total |-> 0]

\* A summary text is modelled by the set of positions of the turns that were
\* folded into it; the empty set is the empty string "" (falsy in JS).
NoSummary == {}

\* A value that is absent (null / undefined).
Null == [kind |-> "null"]

\* ------------------------------------------------------------- the state
VARIABLES
    \* page.tsx: the fields of the active Conversation
    messages,            \* Message[]: the roles of the stored messages
    summary,             \* the stored running summary
    summaryMsgCount,     \* the stored summarizedThroughIndex
    tokenUsage,          \* accumulated TokenUsage
    \* ChatView.tsx: component state and the closure of the running handleSubmit
    isLoading,
    error,               \* TRUE when an error text is shown
    subMessages,         \* `messages` as captured by the running handleSubmit
    fullText,            \* the stream segments read so far
    \* api/chat/route.ts: the request in flight and the locals of POST
    pc,                  \* position of the request
    body,                \* the JSON body of the request
    currentSummary,
    currentSummaryMsgCount,
    summaryTokens,
    recentMessages,      \* positions of previousMessages kept verbatim
    newOverflow,         \* positions of previousMessages passed to summarizeOverflow
    reformArgs,          \* (summary, recentMessages) passed to the reformulation call
    searchQuery,
    reformTokens,
    results,             \* the matches returned by queryChunks
    parentTexts,
    context,
    answerTokens,
    stream,              \* segments enqueued on the ReadableStream
    calls,               \* log of the collaborator calls of the request
    \* context-assembly specification
    ctxResults,
    ctxParentTexts,
    ctxContext,
    ctxDone,
    \* the Pinecone index and the routes that use it
    index,               \* namespace -> the vectors stored in it
    docCount,            \* number of docIds generated so far
    written,             \* log: (sessionId of the upload, id of the vector)
    lastOp,              \* the last route call and what it read
    \* the response body on the wire and the reader loop of handleSubmit
    sent,                \* what the server encoded
    wire,                \* the bytes of the complete response body
    nRead,               \* number of bytes delivered to the reader
    cuts,                \* positions in the wire where a read ended
    pending,             \* bytes the TextDecoder holds back
    readText,            \* fullText of handleSubmit, as characters
    extracted,           \* the result of the final extractSentinels
    outcome,             \* what handleSubmit stores at the end
    \* page.tsx: the conversations of Home and the ChatView mounted for the active one
    conversations,       \* id -> the Conversation with that id
    activeId,            \* id of the active conversation
    nextConv,            \* the id the next createConversation() gives
    instance,            \* number of ChatView instances mounted so far
    viewLoading,         \* isLoading of the mounted ChatView
    inFlight,            \* the handleSubmit invocations awaiting their response
    issued,              \* number of chat requests issued so far
    \* the API routes: the last request handled and its response
    vReq,                \* the request
    vResp,               \* status of the response and the collaborator calls made for it
    \* the chunker (chunker.ts)
    chunkIn,             \* the arguments of parentChildChunk
    chunkOut,            \* its result, Null before the call
    \* an upload request in steps (upload/route.ts, upsertChunks)
    uploading,           \* the request being handled: its document and the vectors upserted so far
    uploadResponses      \* the responses of the upload requests handled

convVars == <<messages, summary, summaryMsgCount, tokenUsage>>
viewVars == <<isLoading, error, subMessages, fullText>>
memVars  == <<currentSummary, currentSummaryMsgCount, summaryTokens,
              recentMessages, newOverflow>>
retrVars == <<reformArgs, searchQuery, reformTokens, results, parentTexts, context>>
genVars  == <<answerTokens, stream>>
ctxVars  == <<ctxResults, ctxParentTexts, ctxContext, ctxDone>>
idxVars  == <<index, docCount, written, lastOp>>
trlVars  == <<sent, wire, nRead, cuts, pending, readText, extracted, outcome>>
pageVars == <<conversations, activeId, nextConv, instance, viewLoading, inFlight, issued>>
valVars == <<vReq, vResp>>
chunkVars == <<chunkIn, chunkOut>>
upVars == <<uploading, uploadResponses>>
auxVars  == <<ctxVars, idxVars, trlVars, pageVars, valVars, chunkVars, upVars>>
vars == <<convVars, viewVars, pc, body, memVars, retrVars, genVars, calls, auxVars>>

\* ------------------------------------------------ search results (matches)
Docs == {"docA", "docB"}
\* parentChildChunk names the parents of every document p-0, p-1, ...
ParentIds == {"p-0", "p-1"}
Scores == {1, 2}

\* The parent text stored in the metadata of the children of parent pid of
\* document doc (upload/route.ts: parentMap.get(child.parentId)).
ParentTextOf(doc, pid) ==
    CASE doc = "docA" /\ pid = "p-0" -> "A0"
      [] doc = "docA" /\ pid = "p-1" -> "A1"
      [] doc = "docB" /\ pid = "p-0" -> "B0"
      [] OTHER -> "B1"

\* A metadata field the vector does not carry (undefined).
Missing == "undefined"

\* The matches the vector index can hold after uploads: one per child vector.
Matches ==
    {[docId |-> d, parentId |-> p, parentText |-> ParentTextOf(d, p),
      text |-> "child", score |-> s] :
        d \in Docs, p \in ParentIds, s \in Scores}

\* Matches whose metadata is not what upload/route.ts writes: fields may be
\* absent or empty (chat/route.ts 163 and 166 provide for both).
RawMatches ==
    {[docId |-> "docA", parentId |-> p, parentText |-> pt, text |-> c, score |-> 1] :
        p \in {Missing, "p-0"}, pt \in {Missing, "", "A0"}, c \in {Missing, "child"}}

\* queryChunks returns the matches in descending score order.
Descending(r) == \A i \in 1..(Len(r) - 1) : r[i].score >= r[i + 1].score

ResultLists(n, ms) ==
    {r \in UNION {[1..k -> ms] : k \in 0..n} : Descending(r)}

\* ------------------------------------------------------- context assembly
\* route.ts 160-168: the loop over the results, from position i on.
RECURSIVE AssembleLoop(_, _, _, _)
AssembleLoop(res, i, seenParents, texts) ==
    IF i > Len(res) THEN texts
    ELSE LET pid == IF res[i].parentId # Missing THEN res[i].parentId ELSE ""
             pText == IF res[i].parentText # Missing THEN res[i].parentText
                      ELSE IF res[i].text # Missing THEN res[i].text
                      ELSE ""
         IN  IF pid # "" /\ pid \in seenParents
             THEN AssembleLoop(res, i + 1, seenParents, texts)
             ELSE AssembleLoop(res, i + 1,
                               IF pid # "" THEN seenParents \cup {pid} ELSE seenParents,
                               IF pText # "" THEN Append(texts, pText) ELSE texts)

\* The parent text of every match, without deduplication.
AllParentTexts(res) == [i \in 1..Len(res) |-> res[i].parentText]

BuildParentTexts(res) == AssembleLoop(res, 1, {}, <<>>)

\* route.ts 169-171: the joined parent texts, or the fixed sentinel sentence.
\* The parent texts joined, also when there are none.
JoinOnly(texts) == [kind |-> "parents", text |-> texts]

NoContext == [kind |-> "none",
              text |-> <<"No relevant context found in the uploaded documents.">>]
BuildContext(texts) ==
    IF Len(texts) > 0 THEN [kind |-> "parents", text |-> texts] ELSE NoContext

\* ------------------------------------------------- memory management (POST)
\* route.ts 114: previousMessages = messages.slice(0, -1), as its length.
PreviousLen(b) == Cardinality(SliceIdx(Len(b.messages), 0, -1))

\* route.ts 124 / 137: the recent window.
RecentOf(n) ==
    IF n > MAX_RECENT THEN SliceIdx(n, 0 - MAX_RECENT, n) ELSE 0..(n - 1)

\* The overflow taken from the first turn on, whatever is summarized already.
OverflowFromStart(n, count) ==
    IF n > MAX_RECENT THEN SliceIdx(n, 0, n - MAX_RECENT) ELSE {}

\* route.ts 127: the turns that should be in the summary but are not yet.
OverflowOf(n, count) ==
    IF n > MAX_RECENT THEN SliceIdx(n, count, n - MAX_RECENT) ELSE {}

\* Summarizing whenever the handler gets here.
AlwaysSummarize(overflow) == TRUE

\* route.ts 129: is there anything new to summarize?
HasNewOverflow(overflow) == overflow # {}

\* The index set to the number of turns just summarized.
AdvancedCountOverflowLen(n, overflow) == Cardinality(overflow)

\* The index set to the number of prior turns.
AdvancedCountAll(n, overflow) == n

\* route.ts 134: the index after the overflow of n prior turns was summarized.
AdvancedCount(n, overflow) == n - MAX_RECENT

\* route.ts 80: the text the completion returned, or the existing summary when
\* it is empty. A non-empty completion is a summary of what it was given: the
\* existing summary and the new messages.
SummaryText(existingSummary, newMessages, content) ==
    IF content = "text" THEN existingSummary \cup newMessages ELSE existingSummary

\* route.ts 46: the rewritten question, or the original one when the completion
\* is empty.
ReformulatedText(content) ==
    IF content = "text" THEN "rewritten" ELSE "question"

Event(c, e) == [call |-> c, ev |-> e]

Sessions == {"s1", "s2"}
Sources == {"a.pdf", "b.pdf"}
\* A field the request body does not carry.
Undefined == [kind |-> "undefined"]

\* Locals of POST before the request runs.
IdleServer ==
    /\ currentSummary = NoSummary
    /\ currentSummaryMsgCount = 0
    /\ summaryTokens = ZeroTokens
    /\ recentMessages = {}
    /\ newOverflow = {}
    /\ reformArgs = Null
    /\ searchQuery = ""
    /\ reformTokens = ZeroTokens
    /\ results = <<>>
    /\ parentTexts = <<>>
    /\ context = Null
    /\ answerTokens = ZeroTokens
    /\ stream = <<>>
    /\ calls = <<>>

\* createConversation() and the initial state of ChatView.
InitClient ==
    /\ messages = <<>>
    /\ summary = NoSummary
    /\ summaryMsgCount = 0
    /\ tokenUsage = ZeroUsage
    /\ isLoading = FALSE
    /\ error = FALSE
    /\ subMessages = <<>>
    /\ fullText = <<>>

InitCtx ==
    /\ ctxResults = <<>>
    /\ ctxParentTexts = <<>>
    /\ ctxContext = Null
    /\ ctxDone = FALSE

\* An index without vectors, before any route call.
InitIdx ==
    /\ index = [s \in Sessions |-> {}]
    /\ docCount = 0
    /\ written = {}
    /\ lastOp = [op |-> "none", session |-> "", selectedDocuments |-> Undefined,
                 matches |-> {}]

\* No response body on the wire.
InitTrl ==
    /\ sent = Null
    /\ wire = <<>>
    /\ nRead = 0
    /\ cuts = {}
    /\ pending = <<>>
    /\ readText = <<>>
    /\ extracted = Null
    /\ outcome = Null

\* page.tsx createConversation 68-80: a conversation as the page model
\* needs it; summaryBy is the number of the request whose response stored
\* the summary, 0 for the empty summary.
NewConv == [exists |-> TRUE, documents |-> FALSE, summaryBy |-> 0]
NoConv == [exists |-> FALSE, documents |-> FALSE, summaryBy |-> 0]

\* page.tsx 87-104: Home after its first load, with one fresh conversation.
InitPage ==
    /\ conversations = [c \in 1..MaxConvs |-> IF c = 1 THEN NewConv ELSE NoConv]
    /\ activeId = 1
    /\ nextConv = 2
    /\ instance = 0
    /\ viewLoading = FALSE
    /\ inFlight = {}
    /\ issued = 0

\* No request handled yet.
InitVal ==
    /\ vReq = Null
    /\ vResp = Null

\* The chunker has not been called.
InitChunk ==
    /\ chunkIn = Null
    /\ chunkOut = Null

\* No upload request yet.
InitUp ==
    /\ uploading = Null
    /\ uploadResponses = {}

Init ==
    /\ InitClient
    /\ pc = "idle"
    /\ body = Null
    /\ IdleServer
    /\ InitCtx
    /\ InitIdx
    /\ InitTrl
    /\ InitUp
    /\ InitChunk
    /\ InitVal
    /\ InitPage

\* ------------------------------------------------------------ the client
\* ChatView.handleSubmit up to the fetch (88-117).
Submit ==
    /\ ~isLoading
    /\ pc = "idle"
    /\ Len(messages) + 2 <= MaxMsgs
    /\ error' = FALSE
    /\ isLoading' = TRUE
    /\ subMessages' = messages
    /\ fullText' = <<>>
    /\ messages' = messages \o <<"user", "assistant">>
    /\ body' = [messages |-> messages \o <<"user">>,
                summary |-> summary,
                summaryMsgCount |-> summaryMsgCount]
    /\ pc' = "request"
    /\ UNCHANGED <<summary, summaryMsgCount, tokenUsage, memVars, retrVars,
                   genVars, calls, auxVars>>

\* route.ts 89-131: validation, then the memory split, up to the await of
\* summarizeOverflow (or, without new overflow, up to reformulateQuery).
PostBegin ==
    /\ pc = "request"
    /\ body.messages # <<>>
    /\ body.messages[Len(body.messages)] = "user"
    /\ LET n == PreviousLen(body)
           overflow == OverflowOf(n, body.summaryMsgCount)
       IN  /\ currentSummary' = body.summary
           /\ currentSummaryMsgCount' = body.summaryMsgCount
           /\ summaryTokens' = ZeroTokens
           /\ recentMessages' = RecentOf(n)
           /\ newOverflow' = overflow
           /\ IF HasNewOverflow(overflow)
              THEN /\ pc' = "summarize"
                   /\ calls' = Append(calls, Event("summarize", "start"))
              ELSE /\ pc' = "reformulate"
                   /\ calls' = calls
    /\ UNCHANGED <<convVars, viewVars, body, retrVars, genVars, auxVars>>

\* route.ts 131-134 with summarizeOverflow 80-86: the completion returned.
SummarizeReturn ==
    /\ pc = "summarize"
    /\ \E content \in {"text", "empty"}, tok \in TokenChoices :
        /\ currentSummary' = SummaryText(currentSummary, newOverflow, content)
        /\ summaryTokens' = tok
    /\ currentSummaryMsgCount' = AdvancedCount(PreviousLen(body), newOverflow)
    /\ calls' = Append(calls, Event("summarize", "end"))
    /\ pc' = "reformulate"
    /\ UNCHANGED <<convVars, viewVars, body, recentMessages, newOverflow,
                   retrVars, genVars, auxVars>>

\* The completion call of summarizeOverflow rejects: route.ts 251-254.
SummarizeFail ==
    /\ pc = "summarize"
    /\ calls' = Append(calls, Event("summarize", "fail"))
    /\ pc' = "failed"
    /\ UNCHANGED <<convVars, viewVars, body, memVars, retrVars, genVars, auxVars>>

\* ------------------------------------------------------ retrieval (POST)
\* The shortcut taken only when there is a summary.
SkipWithSummary(summ, recent) == recent = {} /\ summ # NoSummary

\* reformulateQuery 22: nothing to resolve the question against.
SkipReformulation(summ, recent) == recent = {} /\ summ = NoSummary

\* The summary of the request body handed to reformulateQuery.
StaleSummary == body.summary

\* route.ts 142: the summary handed to reformulateQuery.
ReformulationSummary == currentSummary

\* route.ts 141 with reformulateQuery 22-30: the shortcut without history, or
\* the completion call.
ReformulateBegin ==
    /\ pc = "reformulate"
    /\ IF SkipReformulation(ReformulationSummary, recentMessages)
       THEN /\ searchQuery' = "question"
            /\ reformTokens' = ZeroTokens
            /\ reformArgs' = reformArgs
            /\ calls' = Append(calls, Event("embed", "start"))
            /\ pc' = "embed"
       ELSE /\ reformArgs' = [summary |-> ReformulationSummary,
                               recent |-> recentMessages]
            /\ calls' = Append(calls, Event("reformulate", "start"))
            /\ pc' = "reformulating"
            /\ UNCHANGED <<searchQuery, reformTokens>>
    /\ UNCHANGED <<convVars, viewVars, body, memVars, results, parentTexts,
                   context, genVars, auxVars>>

\* reformulateQuery 46-52, then route.ts 147: embedText is called.
ReformulateReturn ==
    /\ pc = "reformulating"
    /\ \E content \in {"text", "empty"}, tok \in TokenChoices :
        /\ searchQuery' = ReformulatedText(content)
        /\ reformTokens' = tok
    /\ calls' = calls \o <<Event("reformulate", "end"), Event("embed", "start")>>
    /\ pc' = "embed"
    /\ UNCHANGED <<convVars, viewVars, body, memVars, reformArgs, results,
                   parentTexts, context, genVars, auxVars>>

\* The completion call of reformulateQuery rejects: nothing catches it before
\* route.ts 251-254.
ReformulateFail ==
    /\ pc = "reformulating"
    /\ calls' = Append(calls, Event("reformulate", "fail"))
    /\ pc' = "failed"
    /\ UNCHANGED <<convVars, viewVars, body, memVars, retrVars, genVars, auxVars>>

\* route.ts 147-156: the embedding returned, queryChunks is called.
EmbedReturn ==
    /\ pc = "embed"
    /\ calls' = calls \o <<Event("embed", "end"), Event("query", "start")>>
    /\ pc' = "query"
    /\ UNCHANGED <<convVars, viewVars, body, memVars, retrVars, genVars, auxVars>>

\* The failure of the embedding swallowed: the request goes on to the
\* generation without context.
EmbedFailFallsBack ==
    /\ pc = "embed"
    /\ calls' = calls \o <<Event("embed", "fail"), Event("generate", "start")>>
    /\ context' = NoContext
    /\ pc' = "generate"
    /\ UNCHANGED <<convVars, viewVars, body, memVars, reformArgs, searchQuery,
                   reformTokens, results, parentTexts, genVars, auxVars>>

\* embedText rejects: route.ts 251-254.
EmbedFail ==
    /\ pc = "embed"
    /\ calls' = Append(calls, Event("embed", "fail"))
    /\ pc' = "failed"
    /\ UNCHANGED <<convVars, viewVars, body, memVars, retrVars, genVars, auxVars>>

\* The matches the chat pipeline draws its search results from.
PipelineMatches == {m \in Matches : m.docId = "docA" /\ m.score = 1}

\* route.ts 156-191: the matches returned, the context is assembled and the
\* generation call is made.
QueryReturn ==
    /\ pc = "query"
    /\ \E res \in ResultLists(MaxMatches, PipelineMatches) :
        /\ results' = res
        /\ parentTexts' = BuildParentTexts(res)
        /\ context' = BuildContext(BuildParentTexts(res))
    /\ calls' = calls \o <<Event("query", "end"), Event("generate", "start")>>
    /\ pc' = "generate"
    /\ UNCHANGED <<convVars, viewVars, body, memVars, reformArgs, searchQuery,
                   reformTokens, genVars, auxVars>>

\* queryChunks rejects: route.ts 251-254.
QueryFail ==
    /\ pc = "query"
    /\ calls' = Append(calls, Event("query", "fail"))
    /\ pc' = "failed"
    /\ UNCHANGED <<convVars, viewVars, body, memVars, retrVars, genVars, auxVars>>

\* ----------------------------------------------------- generation (POST)
\* route.ts 191-250: the completion call returned its stream; the response
\* with the ReadableStream is returned.
GenerateReturn ==
    /\ pc = "generate"
    /\ pc' = "streaming"
    /\ UNCHANGED <<convVars, viewVars, body, memVars, retrVars, genVars, calls, auxVars>>

\* The generation call rejects before any token: route.ts 251-254.
GenerateFail ==
    /\ pc = "generate"
    /\ calls' = Append(calls, Event("generate", "fail"))
    /\ pc' = "failed"
    /\ UNCHANGED <<convVars, viewVars, body, memVars, retrVars, genVars, auxVars>>

TextSegment == [kind |-> "text"]

\* route.ts 206-215: one fragment of the answer is enqueued.
StreamChunk ==
    /\ pc = "streaming"
    /\ Len(stream) < MaxChunks
    /\ stream' = Append(stream, TextSegment)
    /\ UNCHANGED <<convVars, viewVars, pc, body, memVars, retrVars, answerTokens,
                   calls, auxVars>>

\* A usage sentinel with the tokens of the generation call only.
UsageSentinelAnswerOnly(answer, reform, summ) ==
    [kind |-> "usage",
     prompt |-> answer.prompt,
     completion |-> answer.completion,
     total |-> answer.prompt + answer.completion]

\* route.ts 218-224: the usage sentinel.
UsageSentinel(answer, reform, summ) ==
    LET totalPrompt == answer.prompt + reform.prompt + summ.prompt
        totalCompletion == answer.completion + reform.completion + summ.completion
    IN  [kind |-> "usage",
         prompt |-> totalPrompt,
         completion |-> totalCompletion,
         total |-> totalPrompt + totalCompletion]

\* route.ts 228-234: the summary sentinel, only for a non-empty summary.
SummarySentinel(text, msgCount) ==
    IF text # NoSummary
    THEN <<[kind |-> "summary", text |-> text, msgCount |-> msgCount]>>
    ELSE <<>>

\* The end of the model's output with the summary sentinel enqueued first.
StreamEndSummaryFirst ==
    /\ pc = "streaming"
    /\ \E tok \in TokenChoices :
        /\ answerTokens' = tok
        /\ stream' = stream
                     \o SummarySentinel(currentSummary, currentSummaryMsgCount)
                     \o <<UsageSentinel(tok, reformTokens, summaryTokens)>>
    /\ calls' = Append(calls, Event("generate", "end"))
    /\ pc' = "closed"
    /\ UNCHANGED <<convVars, viewVars, body, memVars, retrVars, auxVars>>

\* route.ts 207-210, 216-236: the model's output ended (its last chunk carried
\* the usage); the sentinels are enqueued and the stream is closed.
StreamEnd ==
    /\ pc = "streaming"
    /\ \E tok \in TokenChoices :
        /\ answerTokens' = tok
        /\ stream' = stream
                     \o <<UsageSentinel(tok, reformTokens, summaryTokens)>>
                     \o SummarySentinel(currentSummary, currentSummaryMsgCount)
    /\ calls' = Append(calls, Event("generate", "end"))
    /\ pc' = "closed"
    /\ UNCHANGED <<convVars, viewVars, body, memVars, retrVars, auxVars>>

\* route.ts 238-241: the model's stream throws; the response stream is errored.
StreamError ==
    /\ pc = "streaming"
    /\ calls' = Append(calls, Event("generate", "fail"))
    /\ pc' = "errored"
    /\ UNCHANGED <<convVars, viewVars, body, memVars, retrVars, genVars, auxVars>>

\* ------------------------------------------- the response stream cancelled
\* The caller cancels the response stream while start() is inside its loop
\* (route.ts 203-243 registers no cancel callback): the stream is closed for
\* the controller and its queue is dropped; start() goes on to its next chunk.
Cancel ==
    /\ pc = "streaming"
    /\ pc' = "cancelled"
    /\ UNCHANGED <<convVars, viewVars, body, memVars, retrVars, genVars, calls, auxVars>>

\* route.ts 211-214, 238-241 after the cancel: the next fragment of the answer
\* arrives, controller.enqueue throws on the cancelled stream, the loop is
\* left and controller.error does nothing.
CancelledChunk ==
    /\ pc = "cancelled"
    /\ pc' = "aborted"
    /\ UNCHANGED <<convVars, viewVars, body, memVars, retrVars, genVars, calls, auxVars>>

\* The sentinels enqueued although the stream was cancelled.
CancelledEndEmits ==
    /\ pc = "cancelled"
    /\ \E tok \in TokenChoices :
        /\ answerTokens' = tok
        /\ stream' = stream
                     \o <<UsageSentinel(tok, reformTokens, summaryTokens)>>
                     \o SummarySentinel(currentSummary, currentSummaryMsgCount)
    /\ pc' = "aborted"
    /\ UNCHANGED <<convVars, viewVars, body, memVars, retrVars, calls, auxVars>>

\* route.ts 207-210, 216-225, 238-241 after the cancel: the model's output
\* ends without a further fragment; controller.enqueue of the usage sentinel
\* throws and nothing is enqueued.
CancelledEnd ==
    /\ pc = "cancelled"
    /\ \E tok \in TokenChoices : answerTokens' = tok
    /\ pc' = "aborted"
    /\ UNCHANGED <<convVars, viewVars, body, memVars, retrVars, stream, calls, auxVars>>

\* --------------------------------------------- the client reads the response
Last(s) == s[Len(s)]
Front(s) == SubSeq(s, 1, Len(s) - 1)

\* ChatView.extractSentinels 34-62, on the segments of the stream: a trailing
\* summary sentinel is taken off first, then a trailing usage sentinel.
ExtractSentinels(text) ==
    LET hasSummary == Len(text) > 0 /\ Last(text).kind = "summary"
        afterSummary == IF hasSummary THEN Front(text) ELSE text
        hasUsage == Len(afterSummary) > 0 /\ Last(afterSummary).kind = "usage"
    IN  [cleanText |-> IF hasUsage THEN Front(afterSummary) ELSE afterSummary,
         usage |-> IF hasUsage THEN Last(afterSummary) ELSE Null,
         summary |-> IF hasSummary THEN Last(text) ELSE Null]

\* page.tsx handleAddTokens 173-182.
AddTokens(old, usage) ==
    [prompt |-> old.prompt + usage.prompt,
     completion |-> old.completion + usage.completion,
     total |-> old.total + usage.total]

\* The request is over: the locals of POST are gone.
LocalsReset ==
    /\ currentSummary' = NoSummary
    /\ currentSummaryMsgCount' = 0
    /\ summaryTokens' = ZeroTokens
    /\ recentMessages' = {}
    /\ newOverflow' = {}
    /\ reformArgs' = Null
    /\ searchQuery' = ""
    /\ reformTokens' = ZeroTokens
    /\ results' = <<>>
    /\ parentTexts' = <<>>
    /\ context' = Null
    /\ answerTokens' = ZeroTokens
    /\ stream' = <<>>
    /\ calls' = <<>>

ServerReset ==
    /\ pc' = "idle"
    /\ body' = Null
    /\ LocalsReset

\* ChatView.handleSubmit 129-138: one read of the response body.
ClientRead ==
    /\ pc \in {"streaming", "closed"}
    /\ Len(fullText) < Len(stream)
    /\ fullText' = Append(fullText, stream[Len(fullText) + 1])
    /\ messages' = subMessages \o <<"user", "assistant">>
    /\ UNCHANGED <<summary, summaryMsgCount, tokenUsage, isLoading, error,
                   subMessages, pc, body, memVars, retrVars, genVars, calls, auxVars>>

\* ChatView.handleSubmit 130-131, 140-154, 159-161: the stream is done.
ClientDone ==
    /\ pc = "closed"
    /\ Len(fullText) = Len(stream)
    /\ LET got == ExtractSentinels(fullText)
       IN  IF got.cleanText = <<>>
           THEN /\ error' = TRUE
                /\ messages' = subMessages
                /\ UNCHANGED <<tokenUsage, summary, summaryMsgCount>>
           ELSE /\ error' = error
                /\ messages' = subMessages \o <<"user", "assistant">>
                /\ tokenUsage' = IF got.usage # Null
                                 THEN AddTokens(tokenUsage, got.usage)
                                 ELSE tokenUsage
                /\ IF got.summary # Null
                   THEN /\ summary' = got.summary.text
                        /\ summaryMsgCount' = got.summary.msgCount
                   ELSE UNCHANGED <<summary, summaryMsgCount>>
    /\ isLoading' = FALSE
    /\ ServerReset
    /\ UNCHANGED <<subMessages, fullText, auxVars>>

\* The error is shown and the messages of the running turn are kept.
ClientErrorKeepsTurn ==
    /\ pc \in {"failed", "errored", "aborted"}
    /\ error' = TRUE
    /\ messages' = messages
    /\ isLoading' = FALSE
    /\ ServerReset
    /\ UNCHANGED <<summary, summaryMsgCount, tokenUsage, subMessages, fullText, auxVars>>

\* ChatView.handleSubmit 119-122 / 130 with 155-161: the response is an error
\* response, or a read of the body rejects (the stream was errored, or the
\* connection was dropped under the reader).
ClientError ==
    /\ pc \in {"failed", "errored", "aborted"}
    /\ error' = TRUE
    /\ messages' = subMessages
    /\ isLoading' = FALSE
    /\ ServerReset
    /\ UNCHANGED <<summary, summaryMsgCount, tokenUsage, subMessages, fullText, auxVars>>

\* page.tsx handleClearHistory 184-193, behind the button of ChatView 202-211.
ClearHistory ==
    /\ Len(messages) > 0
    /\ messages' = <<>>
    /\ tokenUsage' = ZeroUsage
    /\ summary' = NoSummary
    /\ summaryMsgCount' = 0
    /\ UNCHANGED <<viewVars, pc, body, memVars, retrVars, genVars, calls, auxVars>>

Next ==
    \/ Submit
    \/ PostBegin
    \/ SummarizeReturn
    \/ SummarizeFail
    \/ ReformulateBegin
    \/ ReformulateReturn
    \/ ReformulateFail
    \/ EmbedReturn
    \/ EmbedFail
    \/ QueryReturn
    \/ QueryFail
    \/ GenerateReturn
    \/ GenerateFail
    \/ StreamChunk
    \/ StreamEnd
    \/ StreamError
    \/ Cancel
    \/ CancelledChunk
    \/ CancelledEnd
    \/ ClientRead
    \/ ClientDone
    \/ ClientError
    \/ ClearHistory

Spec == Init /\ [][Next]_vars

\* ------------------------------------- one request sent to POST directly
\* Request bodies: the messages end with the user's message; the memory state
\* is any index within the prior turns, with the summary of the turns before it.
Roles(m) == [i \in 1..m |-> IF (m - i) % 2 = 0 THEN "user" ELSE "assistant"]

Bodies ==
    {[messages |-> Roles(m),
      summary |-> IF s = 0 THEN NoSummary ELSE 0..(s - 1),
      summaryMsgCount |-> s] : m \in 1..MaxBodyMsgs, s \in 0..MaxBodyMsgs}

InitRequest ==
    /\ InitClient
    /\ pc = "request"
    /\ body \in {b \in Bodies : b.summaryMsgCount <= PreviousLen(b)}
    /\ IdleServer
    /\ InitCtx
    /\ InitIdx
    /\ InitTrl
    /\ InitUp
    /\ InitChunk
    /\ InitVal
    /\ InitPage

\* The caller of a completed request sends the same messages again, with the
\* memory state the response carried (ChatView 151-153: the state it had sent
\* when the response carries none).
Resend ==
    /\ pc = "closed"
    /\ LET got == ExtractSentinels(stream)
       IN  body' = IF got.summary # Null
                   THEN [body EXCEPT !.summary = got.summary.text,
                                     !.summaryMsgCount = got.summary.msgCount]
                   ELSE body
    /\ pc' = "request"
    /\ LocalsReset
    /\ UNCHANGED <<convVars, viewVars, auxVars>>

NextRequest ==
    \/ Resend
    \/ PostBegin
    \/ SummarizeReturn
    \/ SummarizeFail
    \/ ReformulateBegin
    \/ ReformulateReturn
    \/ ReformulateFail
    \/ EmbedReturn
    \/ EmbedFail
    \/ QueryReturn
    \/ QueryFail
    \/ GenerateReturn
    \/ GenerateFail
    \/ StreamChunk
    \/ StreamEnd
    \/ StreamError

SpecRequest == InitRequest /\ [][NextRequest]_vars

\* ------------------------------------------ context assembly on its own
InitContext ==
    /\ InitClient
    /\ pc = "idle"
    /\ body = Null
    /\ IdleServer
    /\ ctxResults \in ResultLists(MaxResults, Matches)
    /\ ctxParentTexts = <<>>
    /\ ctxContext = Null
    /\ ctxDone = FALSE
    /\ InitIdx
    /\ InitTrl
    /\ InitUp
    /\ InitChunk
    /\ InitVal
    /\ InitPage

\* route.ts 160-171 applied to the matches.
AssembleContext ==
    /\ ~ctxDone
    /\ ctxParentTexts' = BuildParentTexts(ctxResults)
    /\ ctxContext' = BuildContext(BuildParentTexts(ctxResults))
    /\ ctxDone' = TRUE
    /\ UNCHANGED <<convVars, viewVars, pc, body, memVars, retrVars, genVars,
                   calls, upVars, chunkVars, valVars, pageVars, ctxResults, idxVars, trlVars>>

NextContext == AssembleContext

SpecContext == InitContext /\ [][NextContext]_vars

\* ------------------- context assembly on matches with arbitrary metadata
InitMetadata ==
    /\ InitClient
    /\ pc = "idle"
    /\ body = Null
    /\ IdleServer
    /\ ctxResults \in ResultLists(MaxRaw, RawMatches)
    /\ ctxParentTexts = <<>>
    /\ ctxContext = Null
    /\ ctxDone = FALSE
    /\ InitIdx
    /\ InitTrl
    /\ InitUp
    /\ InitChunk
    /\ InitVal
    /\ InitPage

SpecMetadata == InitMetadata /\ [][NextContext]_vars

\* ------------------------------------------- the index and its namespaces
\* upload/route.ts 43-56: the vectors of one file, one per child chunk.
VectorsOf(docId, fileName, n) ==
    {[id |-> <<docId, i>>, source |-> fileName] : i \in 0..(n - 1)}

\* route.ts 150-153: the metadata filter of the search.
HasFilter(selectedDocuments) ==
    selectedDocuments # Undefined /\ Cardinality(selectedDocuments.names) > 0

\* chunker.ts 161-174 reading every namespace of the index.
QueryAllNamespaces(namespace, selectedDocuments) ==
    LET all == UNION {index[s] : s \in Sessions}
    IN  {sub \in SUBSET all : Cardinality(sub) = Min(TOP_K, Cardinality(all))}

\* chunker.ts 161-174: the possible results of index.namespace(namespace)
\* .query({topK, filter}): the topK best of the vectors that pass the filter.
QueryChunks(namespace, selectedDocuments) ==
    LET passing == IF HasFilter(selectedDocuments)
                   THEN {v \in index[namespace] : v.source \in selectedDocuments.names}
                   ELSE index[namespace]
    IN  {sub \in SUBSET passing : Cardinality(sub) = Min(TOP_K, Cardinality(passing))}

\* ChatView 76: the names of the selected documents of the conversation.
SelectedDocs(documents) ==
    [names |-> {d.name : d \in {x \in documents : x.selected}}]

\* The documents of a conversation with their selection flags (page.tsx 157-162).
ClientDocuments ==
    {{[name |-> s, selected |-> f[s]] : s \in Sources} : f \in [Sources -> BOOLEAN]}

\* upload/route.ts 16-66: a file is chunked, embedded and upserted.
Upload ==
    /\ docCount < MaxUploads
    /\ \E sessionId \in Sessions, fileName \in Sources, n \in 1..MaxChildren :
         LET docId == docCount + 1
             vectors == VectorsOf(docId, fileName, n)
         IN  /\ index' = [index EXCEPT ![sessionId] = @ \cup vectors]
             /\ written' = written \cup
                    {[session |-> sessionId, id |-> v.id] : v \in vectors}
             /\ docCount' = docId
             /\ lastOp' = [op |-> "upload", session |-> sessionId,
                           selectedDocuments |-> Undefined, matches |-> {}]
    /\ UNCHANGED <<convVars, viewVars, pc, body, memVars, retrVars, genVars,
                   calls, upVars, chunkVars, valVars, pageVars, ctxVars, trlVars>>

\* chat/route.ts 149-156: the search of a chat request.
ChatQuery ==
    /\ \E sessionId \in Sessions,
          selectedDocuments \in {SelectedDocs(d) : d \in ClientDocuments} \cup {Undefined} :
         \E matches \in QueryChunks(sessionId, selectedDocuments) :
            lastOp' = [op |-> "query", session |-> sessionId,
                       selectedDocuments |-> selectedDocuments,
                       matches |-> matches]
    /\ UNCHANGED <<convVars, viewVars, pc, body, memVars, retrVars, genVars,
                   calls, upVars, chunkVars, valVars, pageVars, ctxVars, trlVars, index, docCount, written>>

\* chunker.ts 176-179: index.namespace(namespace).deleteAll().
DeleteNamespace(namespace) == [index EXCEPT ![namespace] = {}]

\* session/route.ts 4-11: DELETE with a sessionId.
DeleteSession ==
    /\ \E sessionId \in Sessions :
         /\ index' = DeleteNamespace(sessionId)
         /\ lastOp' = [op |-> "delete", session |-> sessionId,
                       selectedDocuments |-> Undefined, matches |-> {}]
    /\ UNCHANGED <<convVars, viewVars, pc, body, memVars, retrVars, genVars,
                   calls, upVars, chunkVars, valVars, pageVars, ctxVars, trlVars, docCount, written>>

InitIndex ==
    /\ InitClient
    /\ pc = "idle"
    /\ body = Null
    /\ IdleServer
    /\ InitCtx
    /\ InitIdx
    /\ InitTrl
    /\ InitUp
    /\ InitChunk
    /\ InitVal
    /\ InitPage

NextIndex ==
    \/ Upload
    \/ ChatQuery
    \/ DeleteSession

SpecIndex == InitIndex /\ [][NextIndex]_vars

\* ------------------------------------------------ the response body as text
\* A text is a sequence of characters. "a" is an ordinary character, "SP" a
\* space, "LF" a line feed, "LS" the line separator U+2028, "e'" a character
\* of two UTF-8 bytes. The pieces of the markers and of the JSON payloads are
\* characters of their own, so that a read can end inside a marker or payload:
\* "{" and "}" stand for the braces with the fixed keys and punctuation,
\* "QUOTE" for a double quote, "\\n" for the escape sequence of a line feed.
SetMin(S) == CHOOSE x \in S : \A y \in S : x <= y
SetMax(S) == CHOOSE x \in S : \A y \in S : x >= y

\* The line terminators of ECMAScript, which `.` does not match.
LineTerminators == {"LF", "LS"}
\* The characters `\s` matches.
WhiteSpace == {"SP", "LF", "LS"}

SummaryOpen == <<"<!--", "SUMMARY:">>
\* ChatView 53: the usage pattern starts with two line feeds.
UsageOpen == <<"LF", "LF", "<!--", "USAGE:">>
MarkerClose == <<"--", ">">>

MaxNum == 9
Numerals == {ToString(n) : n \in 0..MaxNum}
NumberOf(c) == CHOOSE n \in 0..MaxNum : ToString(n) = c

\* JSON.stringify of a string: a line feed is escaped, U+2028 is not.
RECURSIVE Escape(_)
Escape(text) ==
    IF text = <<>> THEN <<>>
    ELSE <<IF Head(text) = "LF" THEN "\\n" ELSE Head(text)>> \o Escape(Tail(text))

RECURSIVE Unescape(_)
Unescape(text) ==
    IF text = <<>> THEN <<>>
    ELSE <<IF Head(text) = "\\n" THEN "LF" ELSE Head(text)>> \o Unescape(Tail(text))

\* route.ts 219-223: JSON.stringify({prompt, completion, total}).
UsageJson(u) ==
    <<"{", ToString(u.prompt), ToString(u.completion), ToString(u.total), "}">>

\* route.ts 229-232: JSON.stringify({text, msgCount}).
SummaryJson(m) ==
    <<"{", "QUOTE">> \o Escape(m.text) \o <<"QUOTE", ToString(m.msgCount), "}">>

\* The text without the leading and trailing characters of ws.
Strip(text, ws) ==
    LET keep == {i \in 1..Len(text) : text[i] \notin ws}
    IN  IF keep = {} THEN <<>> ELSE SubSeq(text, SetMin(keep), SetMax(keep))

SyntaxError == [kind |-> "SyntaxError"]

\* JSON.parse on the payloads the model has: the object of a usage sentinel,
\* the object of a summary sentinel, anything else throws. White space around
\* the value is allowed; U+2028 is not JSON white space.
JsonParse(payload) ==
    LET s == Strip(payload, {"SP", "LF"})
        n == Len(s)
    IN  IF /\ n = 5
           /\ s[1] = "{" /\ s[5] = "}"
           /\ \A i \in 2..4 : s[i] \in Numerals
        THEN [prompt |-> NumberOf(s[2]), completion |-> NumberOf(s[3]),
              total |-> NumberOf(s[4])]
        ELSE IF /\ n >= 5
                /\ s[1] = "{" /\ s[2] = "QUOTE"
                /\ s[n - 2] = "QUOTE" /\ s[n - 1] \in Numerals /\ s[n] = "}"
                /\ \A i \in 3..(n - 3) : s[i] \notin {"QUOTE", "LF", "{", "}"}
        THEN [text |-> Unescape(SubSeq(s, 3, n - 3)), msgCount |-> NumberOf(s[n - 1])]
        ELSE SyntaxError

\* The literal lit stands in text at position i.
LiteralAt(text, i, lit) ==
    /\ i + Len(lit) - 1 <= Len(text)
    /\ \A k \in 1..Len(lit) : text[i + k - 1] = lit[k]

\* The positions where the closing marker can end a match that opened at i:
\* only characters `.` matches in between, only white space up to the end.
ClosesOf(text, i, open) ==
    {e \in (i + Len(open))..Len(text) :
        /\ LiteralAt(text, e, MarkerClose)
        /\ \A k \in (i + Len(open))..(e - 1) : text[k] \notin LineTerminators
        /\ \A k \in (e + Len(MarkerClose))..Len(text) : text[k] \in WhiteSpace}

\* ChatView 44, 53: text.match(/open(.*?)-->\s*$/): the leftmost match, with
\* the shortest capture; Null when there is none.
MatchSentinel(text, open) ==
    LET starts == {i \in 1..Len(text) :
                      LiteralAt(text, i, open) /\ ClosesOf(text, i, open) # {}}
    IN  IF starts = {} THEN Null
        ELSE LET i == SetMin(starts)
                 e == SetMin(ClosesOf(text, i, open))
             IN  [index |-> i, capture |-> SubSeq(text, i + Len(open), e - 1)]

\* try { JSON.parse(payload) } catch { ignore }: ChatView 46-48, 55-57.
ParseOrNull(payload) ==
    IF JsonParse(payload) = SyntaxError THEN Null ELSE JsonParse(payload)

\* ChatView.extractSentinels 34-62 on the characters of the text.
ExtractSentinelsText(text) ==
    LET summaryMatch == MatchSentinel(text, SummaryOpen)
        afterSummary == IF summaryMatch # Null
                        THEN SubSeq(text, 1, summaryMatch.index - 1)
                        ELSE text
        usageMatch == MatchSentinel(afterSummary, UsageOpen)
    IN  [cleanText |-> IF usageMatch # Null
                       THEN SubSeq(afterSummary, 1, usageMatch.index - 1)
                       ELSE afterSummary,
         usage |-> IF usageMatch # Null THEN ParseOrNull(usageMatch.capture) ELSE Null,
         summary |-> IF summaryMatch # Null
                     THEN ParseOrNull(summaryMatch.capture) ELSE Null]

\* route.ts 218-225: the usage sentinel as text.
UsageSentinelText(u) == UsageOpen \o UsageJson(u) \o MarkerClose

\* route.ts 228-234: the summary sentinel as text, only for a non-empty summary.
SummarySentinelText(m) ==
    IF m.text # <<>> THEN SummaryOpen \o SummaryJson(m) \o MarkerClose ELSE <<>>

\* route.ts 206-234: everything start() enqueues for an answer.
ResponseText(answer, u, m) ==
    answer \o UsageSentinelText(u) \o SummarySentinelText(m)

\* TextEncoder.encode (route.ts 213, 225, 233): "e'" takes two bytes.
RECURSIVE Utf8(_)
Utf8(text) ==
    IF text = <<>> THEN <<>>
    ELSE (IF Head(text) = "e'" THEN <<"c3", "a9">> ELSE <<Head(text)>>)
         \o Utf8(Tail(text))

\* The characters of a byte sequence; a byte that is not part of a complete
\* character decodes to U+FFFD.
RECURSIVE DecodeBytes(_)
DecodeBytes(bytes) ==
    IF bytes = <<>> THEN <<>>
    ELSE IF Head(bytes) = "c3" /\ Len(bytes) >= 2 /\ bytes[2] = "a9"
         THEN <<"e'">> \o DecodeBytes(SubSeq(bytes, 3, Len(bytes)))
    ELSE IF Head(bytes) \in {"c3", "a9"}
         THEN <<"FFFD">> \o DecodeBytes(Tail(bytes))
    ELSE <<Head(bytes)>> \o DecodeBytes(Tail(bytes))

\* decoder.decode(value) without the stream option: nothing is held back.
TextDecodeNoStream(held, value) ==
    [text |-> DecodeBytes(held \o value), pending |-> <<>>]

\* ChatView 132: decoder.decode(value, {stream: true}); the first byte of an
\* incomplete character is held back for the next call.
TextDecode(held, value) ==
    LET bytes == held \o value
        incomplete == bytes # <<>> /\ bytes[Len(bytes)] = "c3"
    IN  [text |-> DecodeBytes(IF incomplete THEN SubSeq(bytes, 1, Len(bytes) - 1)
                              ELSE bytes),
         pending |-> IF incomplete THEN <<"c3">> ELSE <<>>]

\* The texts made of at most n of the pieces.
RECURSIVE PieceTexts(_, _)
PieceTexts(pieces, n) ==
    IF n = 0 THEN {<<>>}
    ELSE LET shorter == PieceTexts(pieces, n - 1)
         IN  shorter \cup {s \o p : s \in shorter, p \in pieces}

\* ------------------------------------ the reader loop on the response body
\* ChatView 143-154: what handleSubmit does with the extracted parts.
Outcome(parts) ==
    IF Strip(parts.cleanText, WhiteSpace) = <<>>
    THEN [error |-> TRUE, content |-> <<>>, usage |-> Null, summary |-> Null]
    ELSE [error |-> FALSE, content |-> parts.cleanText, usage |-> parts.usage,
          summary |-> parts.summary]

\* ChatView 129-132: one read of the body, of any number of bytes.
Read ==
    /\ extracted = Null
    /\ nRead < Len(wire)
    /\ \E k \in 1..(Len(wire) - nRead) :
         /\ Cardinality(cuts) < MaxReads - 1 \/ nRead + k = Len(wire)
         /\ LET decoded == TextDecode(pending, SubSeq(wire, nRead + 1, nRead + k))
            IN  /\ readText' = readText \o decoded.text
                /\ pending' = decoded.pending
         /\ nRead' = nRead + k
         /\ cuts' = IF nRead + k < Len(wire) THEN cuts \cup {nRead + k} ELSE cuts
    /\ UNCHANGED <<convVars, viewVars, pc, body, memVars, retrVars, genVars,
                   calls, upVars, chunkVars, valVars, pageVars, ctxVars, idxVars, sent, wire, extracted, outcome>>

\* ChatView 129-132: the body arrives in one read.
ReadWhole ==
    /\ extracted = Null
    /\ nRead = 0
    /\ LET decoded == TextDecode(pending, wire)
       IN  /\ readText' = readText \o decoded.text
           /\ pending' = decoded.pending
    /\ nRead' = Len(wire)
    /\ UNCHANGED <<convVars, viewVars, pc, body, memVars, retrVars, genVars,
                   calls, upVars, chunkVars, valVars, pageVars, ctxVars, idxVars, sent, wire, cuts, extracted, outcome>>

\* ChatView 130-131, 140-154: the body is done.
Finish ==
    /\ sent # Null
    /\ extracted = Null
    /\ nRead = Len(wire)
    /\ extracted' = ExtractSentinelsText(readText)
    /\ outcome' = Outcome(ExtractSentinelsText(readText))
    /\ UNCHANGED <<convVars, viewVars, pc, body, memVars, retrVars, genVars,
                   calls, upVars, chunkVars, valVars, pageVars, ctxVars, idxVars, sent, wire, nRead, cuts, pending,
                   readText>>

InitReader ==
    /\ InitClient
    /\ pc = "idle"
    /\ body = Null
    /\ IdleServer
    /\ InitCtx
    /\ InitIdx
    /\ InitPage
    /\ InitVal
    /\ InitChunk
    /\ InitUp
    /\ nRead = 0
    /\ cuts = {}
    /\ pending = <<>>
    /\ readText = <<>>
    /\ extracted = Null
    /\ outcome = Null

\* route.ts 219-223: the usage values of a response.
UsageValues ==
    {[prompt |-> 0, completion |-> 0, total |-> 0],
     [prompt |-> 2, completion |-> 1, total |-> 3]}

\* route.ts 228-232: the memory states of a response; the empty text is the
\* state without a summary.
MemoryStates(texts) ==
    {[text |-> <<>>, msgCount |-> 0]}
    \cup {[text |-> s, msgCount |-> n] : s \in texts \ {<<>>}, n \in 1..MaxCount}

AnswerPieces ==
    {<<"a">>, <<"LF">>, SummaryOpen, <<"<!--", "USAGE:">>, MarkerClose}
SummaryPieces == {<<"a">>, <<"LF">>, <<"LS">>, MarkerClose}

\* ----------------------------- encoding by the server, decoding by the client
InitTrailer ==
    /\ InitReader
    /\ sent \in [answer : PieceTexts(AnswerPieces, MaxAnswerPieces),
                 usage : UsageValues,
                 summary : MemoryStates(PieceTexts(SummaryPieces, MaxSummaryPieces))]
    /\ wire = Utf8(ResponseText(sent.answer, sent.usage, sent.summary))

NextTrailer ==
    \/ ReadWhole
    \/ Finish

SpecTrailer == InitTrailer /\ [][NextTrailer]_vars

\* ------------------------------------ a response body split into reads
InitReads ==
    /\ InitReader
    /\ sent \in [answer : PieceTexts({<<"a">>, <<"e'">>}, MaxSplitAnswer),
                 usage : {[prompt |-> 2, completion |-> 1, total |-> 3]},
                 summary : MemoryStates({<<"a">>})]
    /\ wire = Utf8(ResponseText(sent.answer, sent.usage, sent.summary))

NextReads ==
    \/ Read
    \/ Finish

SpecReads == InitReads /\ [][NextReads]_vars

\* ------------------------- a response body with arbitrary trailer payloads
Absent == <<"absent">>
Junk == PieceTexts({<<"x">>, <<"LF">>, <<"{">>}, MaxJunk)

\* The text of a body with the given payloads between the markers.
PayloadText(answer, usagePayload, summaryPayload) ==
    answer \o UsageOpen \o usagePayload \o MarkerClose
    \o (IF summaryPayload = Absent THEN <<>>
        ELSE SummaryOpen \o summaryPayload \o MarkerClose)

InitPayload ==
    /\ InitReader
    /\ sent \in [answer : PieceTexts({<<"a">>, <<"LF">>}, MaxAnswerPieces),
                 usagePayload : {UsageJson(u) : u \in UsageValues} \cup Junk,
                 summaryPayload : {SummaryJson(m) : m \in MemoryStates({<<"a">>}) }
                                  \cup Junk \cup {Absent}]
    /\ wire = Utf8(PayloadText(sent.answer, sent.usagePayload, sent.summaryPayload))

SpecPayload == InitPayload /\ [][NextTrailer]_vars

\* ------------------------------------ the page: conversations and ChatView
Existing == {c \in 1..MaxConvs : conversations[c].exists}

\* page.tsx 211-248: ChatView is rendered when the active conversation has
\* documents, UploadView otherwise.
ChatMounted == conversations[activeId].documents

\* viewLoading after the active conversation became target: a ChatView that
\* stays mounted keeps its state, an unmounted one loses it.
LoadingAfter(convs, target) ==
    IF ChatMounted /\ convs[target].documents THEN viewLoading ELSE FALSE

\* The ChatView instances mounted after the active conversation became target.
InstanceAfter(convs, target) ==
    IF ~ChatMounted /\ convs[target].documents THEN instance + 1 ELSE instance

\* ChatView.handleSubmit 88-117 with the guard on the state of the component
\* only.
SubmitChat ==
    /\ ChatMounted
    /\ ~viewLoading
    /\ issued < MaxRequests
    /\ issued' = issued + 1
    /\ viewLoading' = TRUE
    /\ inFlight' = inFlight \cup
           {[conv |-> activeId, no |-> issued + 1, inst |-> instance]}
    /\ UNCHANGED <<convVars, viewVars, pc, body, memVars, retrVars, genVars,
                   calls, upVars, chunkVars, valVars, ctxVars, idxVars, trlVars, conversations, activeId,
                   nextConv, instance>>

\* ChatView.handleSubmit 140-161 with page.tsx 149-151, 195-197: the response
\* of a request is complete; its callbacks update the conversation that was
\* active at the submit, setIsLoading acts on the instance that submitted.
Respond ==
    /\ \E r \in inFlight :
         /\ inFlight' = inFlight \ {r}
         /\ conversations' =
                IF conversations[r.conv].exists
                THEN [conversations EXCEPT ![r.conv].summaryBy = r.no]
                ELSE conversations
         /\ viewLoading' = IF r.inst = instance THEN FALSE ELSE viewLoading
    /\ UNCHANGED <<convVars, viewVars, pc, body, memVars, retrVars, genVars,
                   calls, upVars, chunkVars, valVars, ctxVars, idxVars, trlVars, activeId, nextConv,
                   instance, issued>>

\* page.tsx handleNewConversation 122-126, from the sidebar of ChatView.
NewConversation ==
    /\ ChatMounted
    /\ nextConv <= MaxConvs
    /\ conversations' = [conversations EXCEPT ![nextConv] = NewConv]
    /\ activeId' = nextConv
    /\ nextConv' = nextConv + 1
    /\ viewLoading' = FALSE
    /\ UNCHANGED <<convVars, viewVars, pc, body, memVars, retrVars, genVars,
                   calls, upVars, chunkVars, valVars, ctxVars, idxVars, trlVars, instance, inFlight, issued>>

\* page.tsx handleSwitchConversation 128-130, from the sidebar of ChatView.
SwitchConversation ==
    /\ ChatMounted
    /\ \E id \in Existing \ {activeId} :
         /\ activeId' = id
         /\ viewLoading' = LoadingAfter(conversations, id)
    /\ UNCHANGED <<convVars, viewVars, pc, body, memVars, retrVars, genVars,
                   calls, upVars, chunkVars, valVars, ctxVars, idxVars, trlVars, conversations, nextConv,
                   instance, inFlight, issued>>

\* page.tsx handleDeleteConversation 132-145 (also the end of handleEndSession
\* 199-209): the list is newest first, so next[0] is the newest one left.
DeleteConversation ==
    /\ ChatMounted
    /\ \E id \in Existing :
         LET left == Existing \ {id}
         IN  IF left = {}
             THEN /\ nextConv <= MaxConvs
                  /\ conversations' = [conversations EXCEPT ![id] = NoConv,
                                                            ![nextConv] = NewConv]
                  /\ activeId' = nextConv
                  /\ nextConv' = nextConv + 1
                  /\ viewLoading' = FALSE
             ELSE /\ conversations' = [conversations EXCEPT ![id] = NoConv]
                  /\ activeId' = IF id = activeId THEN SetMax(left) ELSE activeId
                  /\ nextConv' = nextConv
                  /\ viewLoading' = LoadingAfter(conversations,
                                        IF id = activeId THEN SetMax(left) ELSE activeId)
    /\ UNCHANGED <<convVars, viewVars, pc, body, memVars, retrVars, genVars,
                   calls, upVars, chunkVars, valVars, ctxVars, idxVars, trlVars, instance, inFlight, issued>>

\* page.tsx handleUploadComplete 153-155: documents are added to the active
\* conversation, from UploadView or from the sidebar of ChatView; the first
\* documents mount a ChatView.
UploadComplete ==
    /\ conversations' = [conversations EXCEPT ![activeId].documents = TRUE]
    /\ instance' = IF ChatMounted THEN instance ELSE instance + 1
    /\ viewLoading' = IF ChatMounted THEN viewLoading ELSE FALSE
    /\ UNCHANGED <<convVars, viewVars, pc, body, memVars, retrVars, genVars,
                   calls, upVars, chunkVars, valVars, ctxVars, idxVars, trlVars, activeId, nextConv,
                   inFlight, issued>>

InitConversations ==
    /\ InitClient
    /\ pc = "idle"
    /\ body = Null
    /\ IdleServer
    /\ InitCtx
    /\ InitIdx
    /\ InitTrl
    /\ InitUp
    /\ InitChunk
    /\ InitVal
    /\ InitPage

NextConversations ==
    \/ SubmitChat
    \/ Respond
    \/ NewConversation
    \/ SwitchConversation
    \/ DeleteConversation
    \/ UploadComplete

SpecConversations == InitConversations /\ [][NextConversations]_vars

\* --------------------------------------- the API routes and their validation
\* A response: its HTTP status and the collaborator calls made before it.
Response(status, made) == [status |-> status, calls |-> made]

\* The responses of a run of collaborator calls: every call can fail, which
\* gives the 500 of the catch; when all return the response is the 200.
RunCalls(planned) ==
    {Response(500, SubSeq(planned, 1, k)) : k \in 1..Len(planned)}
    \cup {Response(200, planned)}

\* !x of JavaScript for a string field of a request.
Falsy(x) == x \in {Missing, ""}

ChatBodies ==
    [json : BOOLEAN,
     sessionId : {Missing, "", "s1"},
     messages : {[given |-> FALSE, roles |-> <<>>]}
                \cup {[given |-> TRUE, roles |-> r] :
                        r \in {<<>>, <<"user">>, <<"user", "assistant">>,
                               <<"user", "assistant", "user">>}},
     apiKey : BOOLEAN]

\* chat/route.ts 89-255: the responses POST can give to a request.
ChatResponses(b) ==
    IF ~b.json THEN {Response(400, <<>>)}
    ELSE IF Falsy(b.sessionId) THEN {Response(400, <<>>)}
    ELSE IF ~b.apiKey THEN {Response(500, <<>>)}
    ELSE IF \/ ~b.messages.given
            \/ b.messages.roles = <<>>
            \/ b.messages.roles[Len(b.messages.roles)] # "user"
         THEN {Response(400, <<>>)}
    ELSE IF Len(b.messages.roles) = 1
         THEN RunCalls(<<"embedding", "index", "completion">>)
    ELSE RunCalls(<<"completion", "embedding", "index", "completion">>)

\* parsers.ts 89-98: the extensions parseDocument accepts.
SupportedExtensions == {"pdf", "docx", "epub", "txt", "md"}

UploadForms ==
    [file : BOOLEAN,
     sessionId : {Missing, "", "s1"},
     ext : {"pdf", "txt", "exe"},
     parses : BOOLEAN,
     text : {"", "SP", "abc"}]

\* An upload route that embeds before it looks at the sessionId.
UploadResponsesLateCheck(f) ==
    IF ~f.file THEN {Response(400, <<>>)}
    ELSE IF f.ext \notin SupportedExtensions \/ ~f.parses THEN {Response(500, <<>>)}
    ELSE IF f.text \in {"", "SP"} THEN {Response(400, <<>>)}
    ELSE IF Falsy(f.sessionId) THEN {Response(400, <<"embedding">>)}
    ELSE RunCalls(<<"embedding", "index">>)

\* upload/route.ts 10-71: the responses POST can give to a form; parseDocument
\* throws for an unsupported extension (parsers.ts 97) or a broken file.
UploadResponses(f) ==
    IF ~f.file THEN {Response(400, <<>>)}
    ELSE IF Falsy(f.sessionId) THEN {Response(400, <<>>)}
    ELSE IF f.ext \notin SupportedExtensions \/ ~f.parses THEN {Response(500, <<>>)}
    ELSE IF f.text \in {"", "SP"} THEN {Response(400, <<>>)}
    ELSE RunCalls(<<"embedding", "index">>)

DeleteBodies == [json : BOOLEAN, sessionId : {Missing, "", "s1"}]

\* session/route.ts 4-20: the responses DELETE can give to a request.
DeleteResponses(b) ==
    IF ~b.json THEN {Response(500, <<>>)}
    ELSE IF Falsy(b.sessionId) THEN {Response(400, <<>>)}
    ELSE RunCalls(<<"index">>)

\* chat/route.ts POST handles a request.
ChatRequest ==
    /\ \E b \in ChatBodies : \E r \in ChatResponses(b) :
         /\ vReq' = [route |-> "chat", in |-> b]
         /\ vResp' = r
    /\ UNCHANGED <<convVars, viewVars, pc, body, memVars, retrVars, genVars,
                   calls, upVars, chunkVars, ctxVars, idxVars, trlVars, pageVars>>

\* upload/route.ts POST handles a form.
UploadRequest ==
    /\ \E f \in UploadForms : \E r \in UploadResponses(f) :
         /\ vReq' = [route |-> "upload", in |-> f]
         /\ vResp' = r
    /\ UNCHANGED <<convVars, viewVars, pc, body, memVars, retrVars, genVars,
                   calls, upVars, chunkVars, ctxVars, idxVars, trlVars, pageVars>>

\* session/route.ts DELETE handles a request.
DeleteRequest ==
    /\ \E b \in DeleteBodies : \E r \in DeleteResponses(b) :
         /\ vReq' = [route |-> "session", in |-> b]
         /\ vResp' = r
    /\ UNCHANGED <<convVars, viewVars, pc, body, memVars, retrVars, genVars,
                   calls, upVars, chunkVars, ctxVars, idxVars, trlVars, pageVars>>

InitRoutes ==
    /\ InitClient
    /\ pc = "idle"
    /\ body = Null
    /\ IdleServer
    /\ InitCtx
    /\ InitIdx
    /\ InitTrl
    /\ InitUp
    /\ InitChunk
    /\ InitPage
    /\ InitVal

NextRoutes ==
    \/ ChatRequest
    \/ UploadRequest
    \/ DeleteRequest

SpecRoutes == InitRoutes /\ [][NextRoutes]_vars

\* ------------------------------------------------ the chunker (chunker.ts)
\* A text is a sequence of characters: a letter, a full stop, a space, a line
\* feed.
ChunkAlphabet == {"a", ".", "SP", "LF"}

\* chunker.ts 14.
SEPARATORS == << <<"LF", "LF">>, <<"LF">>, <<".", "SP">>, <<"SP">>, <<>> >>

\* String.prototype.trim.
Trim(s) == Strip(s, WhiteSpace)

\* String.prototype.split with a non-empty separator: the pieces between
\* the leftmost non-overlapping occurrences of sep.
RECURSIVE Split(_, _)
Split(text, sep) ==
    LET n == Len(text)
        m == Len(sep)
        hits == {i \in 1..(n - m + 1) : SubSeq(text, i, i + m - 1) = sep}
    IN  IF hits = {} THEN <<text>>
        ELSE LET i == SetMin(hits)
             IN  <<SubSeq(text, 1, i - 1)>> \o Split(SubSeq(text, i + m, n), sep)

\* chunker.ts 80-84: slices of chunkSize characters.
RECURSIVE FixedWidth(_, _)
FixedWidth(text, chunkSize) ==
    IF Len(text) = 0 THEN <<>>
    ELSE IF Len(text) <= chunkSize THEN <<text>>
    ELSE <<SubSeq(text, 1, chunkSize)>>
             \o FixedWidth(SubSeq(text, chunkSize + 1, Len(text)), chunkSize)

RECURSIVE splitRecursive(_, _, _)
RECURSIVE SplitPieces(_, _, _, _, _, _)

\* chunker.ts 92-106: the loop over the splits, and the push after it;
\* pieces is the array results.
SplitPieces(splits, current, pieces, sep, rest, chunkSize) ==
    LET pushed == IF current # <<>> THEN Append(pieces, current) ELSE pieces
    IN  IF splits = <<>> THEN pushed
        ELSE LET piece == Head(splits)
                 candidate == IF current # <<>> THEN current \o sep \o piece
                              ELSE piece
             IN  IF Len(candidate) <= chunkSize
                 THEN SplitPieces(Tail(splits), candidate, pieces,
                                  sep, rest, chunkSize)
                 ELSE IF Len(piece) > chunkSize
                 THEN SplitPieces(Tail(splits), <<>>,
                                  pushed \o splitRecursive(piece, rest, chunkSize),
                                  sep, rest, chunkSize)
                 ELSE SplitPieces(Tail(splits), piece, pushed,
                                  sep, rest, chunkSize)

\* chunker.ts 78-108.
splitRecursive(text, separators, chunkSize) ==
    IF Len(text) <= chunkSize THEN <<text>>
    ELSE IF Len(separators) = 0 THEN FixedWidth(text, chunkSize)
    ELSE LET sep == Head(separators)
             rest == Tail(separators)
             splits == IF sep = <<>> THEN <<text>> ELSE Split(text, sep)
         IN  SplitPieces(splits, <<>>, <<>>, sep, rest, chunkSize)

\* chunker.ts 116-120: the inner loop, from piece i with the chunk so far;
\* the result is the last piece taken and the chunk.
RECURSIVE MergeNext(_, _, _, _)
MergeNext(splits, i, chunk, chunkSize) ==
    IF /\ i + 1 <= Len(splits)
       /\ Len(chunk) + Len(splits[i + 1]) + 1 <= chunkSize
    THEN MergeNext(splits, i + 1, chunk \o <<"SP">> \o Trim(splits[i + 1]),
                   chunkSize)
    ELSE [i |-> i, chunk |-> chunk]

\* chunker.ts 115-123: the outer loop from piece i.
RECURSIVE MergeLoop(_, _, _, _)
MergeLoop(splits, i, result, chunkSize) ==
    IF i > Len(splits) THEN result
    ELSE LET m == MergeNext(splits, i, Trim(splits[i]), chunkSize)
         IN  MergeLoop(splits, m.i + 1,
                       IF m.chunk # <<>> THEN Append(result, m.chunk)
                       ELSE result,
                       chunkSize)

\* String.prototype.slice(-n), n > 0.
LastChars(s, n) == IF Len(s) <= n THEN s ELSE SubSeq(s, Len(s) - n + 1, Len(s))

\* chunker.ts 110-134.
mergeChunks(splits, chunkSize, overlap) ==
    IF Len(splits) <= 1
    THEN SelectSeq([k \in 1..Len(splits) |-> Trim(splits[k])],
                   LAMBDA s : s # <<>>)
    ELSE LET result == MergeLoop(splits, 1, <<>>, chunkSize)
         IN  IF overlap > 0 /\ Len(result) > 1
             THEN [j \in 1..Len(result) |->
                     IF j = 1 THEN result[1]
                     ELSE LastChars(result[j - 1], overlap)
                              \o <<"SP">> \o result[j]]
             ELSE result

\* chunker.ts 73-76.
splitAndMerge(text, chunkSize, overlap) ==
    mergeChunks(splitRecursive(text, SEPARATORS, chunkSize), chunkSize, overlap)

\* chunker.ts 41-48: the children of one parent pushed after those already
\* there.
RECURSIVE PushChildren(_, _, _, _)
PushChildren(children, parent, childTexts, ci) ==
    IF ci >= Len(childTexts) THEN children
    ELSE PushChildren(Append(children,
                             [text |-> childTexts[ci + 1],
                              index |-> Len(children),
                              parentId |-> parent.id,
                              childIndex |-> ci]),
                      parent, childTexts, ci + 1)

\* chunker.ts 39-50: the loop over the parents.
RECURSIVE ChildrenOf(_, _, _, _)
ChildrenOf(parents, children, childSize, childOverlap) ==
    IF parents = <<>> THEN children
    ELSE ChildrenOf(Tail(parents),
                    PushChildren(children, Head(parents),
                                 splitAndMerge(Head(parents).text,
                                               childSize, childOverlap), 0),
                    childSize, childOverlap)

\* chunker.ts 23-53. The id p-i is the pair <<"p", i>>; texts is the array
\* parentTexts.
parentChildChunk(text, parentSize, parentOverlap, childSize, childOverlap) ==
    LET texts == splitAndMerge(text, parentSize, parentOverlap)
        parents == [k \in 1..Len(texts) |->
                      [id |-> <<"p", k - 1>>,
                       text |-> texts[k],
                       index |-> k - 1]]
    IN  [parents |-> parents,
         children |-> ChildrenOf(parents, <<>>, childSize, childOverlap)]

\* The texts of at most n characters.
RECURSIVE TextsUpTo(_)
TextsUpTo(n) ==
    IF n = 0 THEN {<<>>}
    ELSE LET shorter == TextsUpTo(n - 1)
         IN  shorter \cup {Append(s, c) : s \in shorter, c \in ChunkAlphabet}

\* A call of parentChildChunk.
ChunkCall ==
    /\ chunkOut = Null
    /\ chunkOut' = parentChildChunk(chunkIn.text,
                                    chunkIn.parentSize, chunkIn.parentOverlap,
                                    chunkIn.childSize, chunkIn.childOverlap)
    /\ UNCHANGED <<convVars, viewVars, pc, body, memVars, retrVars, genVars,
                   calls, upVars, ctxVars, idxVars, trlVars, pageVars, valVars,
                   chunkIn>>

\* Every text, and every positive size and overlap, within the bounds.
InitChunker ==
    /\ InitClient
    /\ pc = "idle"
    /\ body = Null
    /\ IdleServer
    /\ InitCtx
    /\ InitIdx
    /\ InitTrl
    /\ InitUp
    /\ InitPage
    /\ InitVal
    /\ chunkIn \in [text : TextsUpTo(MaxTextLen),
                    parentSize : 1..MaxSize,
                    parentOverlap : 1..MaxOverlap,
                    childSize : 1..MaxSize,
                    childOverlap : 1..MaxOverlap]
    /\ chunkOut = Null

NextChunker == ChunkCall

SpecChunker == InitChunker /\ [][NextChunker]_vars

\* ------------------------------------- an upload request, batch by batch
\* The numbers of child chunks of a file: one, full batches, and one more than
\* full batches.
ChildCounts ==
    {1} \cup {BATCH * b : b \in 1..MaxBatches}
        \cup {BATCH * b + 1 : b \in 1..(MaxBatches - 1)}

\* chunker.ts 156-157: chunks.slice(i, i + BATCH) of the vectors of the file.
BatchAt(u, i) ==
    {v \in VectorsOf(u.docId, u.fileName, u.n) : v.id[2] >= i /\ v.id[2] < i + BATCH}

\* upload/route.ts 12-56: the form is valid, the text is chunked, the children
\* are embedded and the vectors built; upsertChunks is called.
UploadBegin ==
    /\ uploading = Null
    /\ docCount < MaxUploads
    /\ \E sessionId \in Sessions, fileName \in Sources, n \in ChildCounts :
         uploading' = [session |-> sessionId, fileName |-> fileName,
                       docId |-> docCount + 1, n |-> n, i |-> 0]
    /\ docCount' = docCount + 1
    /\ UNCHANGED <<convVars, viewVars, pc, body, memVars, retrVars, genVars,
                   calls, chunkVars, valVars, pageVars, ctxVars, trlVars,
                   index, written, lastOp, uploadResponses>>

\* chunker.ts 156-158: one index.upsert of the loop resolves.
UpsertBatch ==
    /\ uploading # Null
    /\ uploading.i < uploading.n
    /\ LET vectors == BatchAt(uploading, uploading.i)
       IN  /\ index' = [index EXCEPT ![uploading.session] = @ \cup vectors]
           /\ written' = written \cup
                  {[session |-> uploading.session, id |-> v.id] : v \in vectors}
    /\ uploading' = [uploading EXCEPT !.i = @ + BATCH]
    /\ UNCHANGED <<convVars, viewVars, pc, body, memVars, retrVars, genVars,
                   calls, chunkVars, valVars, pageVars, ctxVars, trlVars,
                   docCount, lastOp, uploadResponses>>

\* The response of the request being handled.
UploadResponse(status) ==
    [session |-> uploading.session, fileName |-> uploading.fileName,
     docId |-> uploading.docId, n |-> uploading.n, status |-> status]

\* chunker.ts 157 with upload/route.ts 67-71: an index.upsert of the loop
\* rejects, upsertChunks rejects and the handler answers 500.
UpsertFail ==
    /\ uploading # Null
    /\ uploading.i < uploading.n
    /\ uploadResponses' = uploadResponses \cup {UploadResponse(500)}
    /\ uploading' = Null
    /\ UNCHANGED <<convVars, viewVars, pc, body, memVars, retrVars, genVars,
                   calls, chunkVars, valVars, pageVars, ctxVars, trlVars,
                   idxVars>>

\* upload/route.ts 58-66: upsertChunks resolved, the handler answers 200.
UploadReturn ==
    /\ uploading # Null
    /\ uploading.i >= uploading.n
    /\ uploadResponses' = uploadResponses \cup {UploadResponse(200)}
    /\ uploading' = Null
    /\ UNCHANGED <<convVars, viewVars, pc, body, memVars, retrVars, genVars,
                   calls, chunkVars, valVars, pageVars, ctxVars, trlVars,
                   idxVars>>

InitUpsert ==
    /\ InitClient
    /\ pc = "idle"
    /\ body = Null
    /\ IdleServer
    /\ InitCtx
    /\ InitIdx
    /\ InitTrl
    /\ InitChunk
    /\ InitVal
    /\ InitPage
    /\ InitUp

NextUpsert ==
    \/ UploadBegin
    \/ UpsertBatch
    \/ UpsertFail
    \/ UploadReturn

SpecUpsert == InitUpsert /\ [][NextUpsert]_vars

\* ================================================================ claims
CallIdx == 1..Len(calls)
Logged(c, e) == \E i \in CallIdx : calls[i] = Event(c, e)
\* The memory-management step of the request is over.
PastMemory ==
    pc \in {"reformulate", "reformulating", "embed", "query", "generate",
            "streaming", "closed", "errored", "cancelled", "aborted"}
\* The memory-state segments enqueued on the response stream.
MemorySegments == {stream[i] : i \in {j \in 1..Len(stream) : stream[j].kind = "summary"}}

\* C1: over the requests of one conversation the index a request computes is
\* never smaller than the index it was passed, and the stored index never
\* decreases except by the clear-history action.
C1_IndexNeverDecreases ==
    [][/\ (summaryMsgCount' < summaryMsgCount) => ClearHistory
       /\ (pc' \in {"reformulate", "reformulating", "embed", "query", "generate",
                    "streaming", "closed", "errored", "cancelled", "aborted"})
            => currentSummaryMsgCount' >= body'.summaryMsgCount
       /\ \A i \in 1..Len(stream') :
            stream'[i].kind = "summary" => stream'[i].msgCount >= body'.summaryMsgCount
      ]_vars

\* A request that was passed index 2 returned index 4.
C1_Witness ==
    /\ pc = "closed"
    /\ body.summaryMsgCount = 2
    /\ \E seg \in MemorySegments : seg.msgCount = 4

\* C2 as stated: the index never exceeds len(prior turns) - MAX_RECENT, for
\* conversations of every length.
C2_IndexAtMostLenMinusWindow ==
    /\ body # Null => body.summaryMsgCount <= PreviousLen(body) - MAX_RECENT
    /\ PastMemory => currentSummaryMsgCount <= PreviousLen(body) - MAX_RECENT

\* C2 amended: the index never exceeds max(0, len(prior turns) - MAX_RECENT):
\* the index passed in, the index the request computes, and the stored index
\* against the stored messages.
C2_IndexAtMostOverflowEnd ==
    /\ body # Null =>
         body.summaryMsgCount <= Max(0, PreviousLen(body) - MAX_RECENT)
    /\ PastMemory =>
         currentSummaryMsgCount <= Max(0, PreviousLen(body) - MAX_RECENT)
    /\ \A seg \in MemorySegments :
         seg.msgCount <= Max(0, PreviousLen(body) - MAX_RECENT)
    /\ pc = "idle" => summaryMsgCount <= Max(0, Len(messages) - MAX_RECENT)

\* The stored index is positive and as large as the bound allows at the time
\* it was returned.
C2_Witness ==
    /\ pc = "closed"
    /\ PreviousLen(body) > MAX_RECENT
    /\ \E seg \in MemorySegments : seg.msgCount = PreviousLen(body) - MAX_RECENT

\* C3: every turn before the index is folded into the summary exactly once:
\* a memory state that advances the index from a to b carries the summary made
\* from the previous summary and exactly turns[a..b), no summarization call is
\* handed a turn that is in the summary already, and the stored summary covers
\* exactly the turns before the stored index.
C3_FoldedExactlyOnce ==
    /\ summary = 0..(summaryMsgCount - 1)
    /\ pc = "summarize" => newOverflow \cap currentSummary = {}
    /\ \A seg \in MemorySegments :
         seg.msgCount # body.summaryMsgCount =>
            /\ newOverflow = body.summaryMsgCount..(seg.msgCount - 1)
            /\ seg.text = body.summary \cup newOverflow

\* C4: a failed summarization call does not fail the request: it goes on with
\* the index not advanced and the previous summary unchanged.
C4_SummarizeFailureKeepsSummary ==
    Logged("summarize", "fail") =>
        /\ pc # "failed"
        /\ currentSummary = body.summary
        /\ currentSummaryMsgCount = body.summaryMsgCount

\* C5: with n > MAX_RECENT prior turns and incoming index s, the recent window
\* is turns[n-6..n), the overflow is turns[s..n-6), and once a non-empty
\* overflow was summarized the index is n-6 (also in the memory-state segment).
C5_WindowAndOverflow ==
    LET n == PreviousLen(body)
        s == body.summaryMsgCount
    IN  (pc # "request" /\ n > MAX_RECENT) =>
          /\ recentMessages = (n - MAX_RECENT)..(n - 1)
          /\ newOverflow = {i \in 0..(n - 1) : s <= i /\ i < n - MAX_RECENT}
          /\ (newOverflow # {} /\ Logged("summarize", "end")) =>
                /\ currentSummaryMsgCount = n - MAX_RECENT
                /\ \A seg \in MemorySegments : seg.msgCount = n - MAX_RECENT

\* The scenario of the specification: window 6, index 0, 9 prior turns.
C5_Witness ==
    /\ pc = "closed"
    /\ PreviousLen(body) = 9
    /\ body.summaryMsgCount = 0
    /\ newOverflow = {0, 1, 2}
    /\ recentMessages = 3..8
    /\ \E seg \in MemorySegments : seg.msgCount = 3

\* The request has no new overflow: at most MAX_RECENT prior turns, or the
\* index already at n-6.
NoNewOverflow(b) ==
    \/ PreviousLen(b) <= MAX_RECENT
    \/ b.summaryMsgCount = PreviousLen(b) - MAX_RECENT

\* What a request without new overflow leaves behind.
MemoryAsPassed ==
    (pc # "request" /\ NoNewOverflow(body)) =>
        /\ \A i \in CallIdx : calls[i].call # "summarize"
        /\ summaryTokens = ZeroTokens
        /\ currentSummary = body.summary
        /\ currentSummaryMsgCount = body.summaryMsgCount
        /\ \A seg \in MemorySegments :
              seg.text = body.summary /\ seg.msgCount = body.summaryMsgCount

\* C6: a request without new overflow makes no summarization call and hands
\* back the memory state it was passed; sent again with what it handed back it
\* is the same request, any number of times.
C6_NoOverflowNoChange ==
    [][/\ MemoryAsPassed'
       /\ (pc = "closed" /\ pc' = "request" /\ NoNewOverflow(body)) => body' = body
      ]_vars

\* A request whose index is already at n-6 closed its stream with a
\* memory-state segment.
C6_Witness ==
    /\ pc = "closed"
    /\ body.summaryMsgCount > 0
    /\ body.summaryMsgCount = PreviousLen(body) - MAX_RECENT
    /\ MemorySegments # {}

\* C7: a failure of the reformulation call never fails the request; the
\* request goes on to the embedding with the original question.
C7_ReformulationNeverFailsRequest ==
    Logged("reformulate", "fail") =>
        /\ pc # "failed"
        /\ Logged("embed", "start") => searchQuery = "question"

\* C8: with an empty summary and no recent turns the reformulation makes no
\* completion call, returns the question unchanged and costs no tokens.
C8_NoHistoryNoReformulation ==
    (Logged("embed", "start") /\ recentMessages = {} /\ currentSummary = NoSummary) =>
        /\ \A i \in CallIdx : calls[i].call # "reformulate"
        /\ searchQuery = "question"
        /\ reformTokens = ZeroTokens

\* The first request of a conversation reached the embedding.
C8_Witness ==
    /\ pc = "embed"
    /\ PreviousLen(body) = 0
    /\ body.summary = NoSummary
    /\ searchQuery = "question"

Rank(c) ==
    CASE c = "summarize" -> 1
      [] c = "reformulate" -> 2
      [] c = "embed" -> 3
      [] c = "query" -> 4
      [] OTHER -> 5

\* C9: the collaborator calls of a request are made in the order summarize,
\* reformulate, embed, query, generate; a call starts only when the call before
\* it has returned; embedding, search and generation are never skipped over;
\* and the reformulation is handed the summary as the summarization left it.
C9_CallOrder ==
    /\ \A i, j \in CallIdx : i < j => Rank(calls[i].call) <= Rank(calls[j].call)
    /\ \A i \in CallIdx :
         IF calls[i].ev = "start"
         THEN i > 1 => /\ calls[i - 1].ev = "end"
                       /\ Rank(calls[i - 1].call) < Rank(calls[i].call)
         ELSE i > 1 /\ calls[i - 1] = Event(calls[i].call, "start")
    /\ \A i \in CallIdx :
         /\ calls[i] = Event("query", "start") =>
                i > 1 /\ calls[i - 1] = Event("embed", "end")
         /\ calls[i] = Event("generate", "start") =>
                i > 1 /\ calls[i - 1] = Event("query", "end")
    /\ Logged("summarize", "start") /\ Logged("reformulate", "start")
         => Logged("summarize", "end")
    /\ reformArgs # Null => reformArgs.summary = currentSummary

\* A request made all five calls, and the reformulation saw a summary that the
\* summarization of this request had changed.
C9_Witness ==
    /\ pc = "closed"
    /\ Len(calls) = 10
    /\ reformArgs # Null
    /\ reformArgs.summary # body.summary

\* The positions of the matches that are the first of their parentId.
FirstMatches(res) ==
    {i \in 1..Len(res) : \A j \in 1..(i - 1) : res[j].parentId # res[i].parentId}

\* C10: the assembled parent texts are, in order, the parent texts of the
\* first match of each distinct parentId, one per parentId; every later match
\* of a parentId is left out.
C10_FirstMatchPerParent ==
    ctxDone =>
        LET first == FirstMatches(ctxResults)
        IN  /\ Len(ctxParentTexts) = Cardinality({ctxResults[i].parentId :
                                                    i \in 1..Len(ctxResults)})
            /\ \A i \in first :
                 ctxParentTexts[Cardinality({j \in first : j <= i})]
                     = ctxResults[i].parentText

\* Matches of one parent came second and fourth, behind its first match, one of
\* them with the same score as the first.
C10_Witness ==
    /\ ctxDone
    /\ Len(ctxResults) = 4
    /\ ctxResults[1].parentId = ctxResults[2].parentId
    /\ ctxResults[1].score = ctxResults[2].score
    /\ ctxResults[1].parentId = ctxResults[4].parentId
    /\ ctxResults[3].parentId # ctxResults[1].parentId
    /\ Len(ctxParentTexts) = 2

\* The joined text of a context is the empty string: nothing was joined, or
\* one empty text was.
IsEmptyString(c) ==
    /\ c.kind = "parents"
    /\ Len(c.text) = 0 \/ (Len(c.text) = 1 /\ c.text[1] = "")

\* C11: the context handed to the generation is never the empty string; when
\* no match contributes a parent text it is the fixed no-context sentence.
C11_ContextNeverEmpty ==
    ctxDone =>
        /\ ~IsEmptyString(ctxContext)
        /\ \A i \in 1..Len(ctxContext.text) : ctxContext.text[i] # ""
        /\ (\A i \in 1..Len(ctxResults) :
                /\ ctxResults[i].parentText \in {Missing, ""}
                /\ ctxResults[i].parentText = Missing => ctxResults[i].text = Missing)
             => ctxContext = NoContext

\* There were matches, none of them with a parent text (one with an empty
\* parent text, one with no text at all), and the context was assembled.
C11_Witness ==
    /\ ctxDone
    /\ Len(ctxResults) = 2
    /\ ctxResults[1].parentText = ""
    /\ ctxResults[2].parentText = Missing
    /\ ctxResults[2].text = Missing
    /\ ctxContext = NoContext

\* C12: once the embedding call or the vector search has failed, the request
\* is an error response: no generation call is made, no context was built and
\* nothing is streamed; the client then shows the error.
C12_RetrievalFailureEndsRequest ==
    [][/\ (Logged("embed", "fail") \/ Logged("query", "fail"))' =>
            /\ pc' = "failed"
            /\ \A i \in 1..Len(calls') : calls'[i].call # "generate"
            /\ context' = Null
            /\ parentTexts' = <<>>
            /\ stream' = <<>>
       /\ (pc = "failed" /\ pc' # "failed") => (pc' = "idle" /\ error')
      ]_vars

\* The vector search failed after the embedding had returned.
C12_Witness ==
    /\ pc = "failed"
    /\ Logged("embed", "end")
    /\ Logged("query", "fail")

\* C13: every vector a chat request of session S reads was written by an
\* upload of session S, and a session deletion for S leaves the vectors of
\* every other session in place.
C13_NamespaceIsolation ==
    [][/\ lastOp'.op = "query" =>
            \A m \in lastOp'.matches :
                [session |-> lastOp'.session, id |-> m.id] \in written'
       /\ lastOp'.op = "delete" =>
            \A s \in Sessions \ {lastOp'.session} : index'[s] = index[s]
      ]_vars

\* A chat request of s1 reads its vectors after s2, which had uploaded, was
\* deleted.
C13_Witness ==
    /\ lastOp.op = "query"
    /\ lastOp.session = "s1"
    /\ lastOp.matches # {}
    /\ index["s2"] = {}
    /\ \E w \in written : w.session = "s2"

\* C14: when the caller supplies a list of selected source names, every match
\* of the search has its source in the list, the empty list included.
C14_MatchesWithinSelection ==
    (lastOp.op = "query" /\ lastOp.selectedDocuments # Undefined) =>
        \A m \in lastOp.matches : m.source \in lastOp.selectedDocuments.names

\* The positions of the segments of one kind in the response stream.
SegmentsOf(kind) == {i \in 1..Len(stream) : stream[i].kind = kind}

\* C15: trailer segments are in the stream only once the model's output has
\* been consumed to its end; no answer text follows a trailer, there is at
\* most one usage segment and at most one memory-state segment, and the usage
\* segment precedes the memory-state segment.
C15_TrailersAfterAnswer ==
    /\ Cardinality(SegmentsOf("usage")) <= 1
    /\ Cardinality(SegmentsOf("summary")) <= 1
    /\ \A i \in SegmentsOf("usage") \cup SegmentsOf("summary") :
        /\ Logged("generate", "end")
        /\ pc = "closed"
        /\ \A j \in SegmentsOf("text") : j < i
    /\ \A i \in SegmentsOf("summary") : \E j \in SegmentsOf("usage") : j < i

\* A closed stream with answer text and both trailers.
C15_Witness ==
    /\ pc = "closed"
    /\ SegmentsOf("text") # {}
    /\ SegmentsOf("usage") # {}
    /\ SegmentsOf("summary") # {}

\* C16: decoding the stream the server encodes for an answer text, a usage
\* value and a memory state returns that answer text, that usage and that
\* memory state; without a memory-state segment the summary decodes to null.
C16_RoundTrip ==
    extracted # Null =>
        /\ extracted.cleanText = sent.answer
        /\ extracted.usage = sent.usage
        /\ extracted.summary = IF sent.summary.text = <<>> THEN Null
                               ELSE sent.summary

\* Some trailer payload of the body is not JSON.
PayloadFails ==
    \/ JsonParse(sent.usagePayload) = SyntaxError
    \/ sent.summaryPayload # Absent /\ JsonParse(sent.summaryPayload) = SyntaxError

\* C18: when the payload of a trailer segment fails to parse, the answer text
\* is stored with the segments stripped, no error is raised for the failure,
\* and only the update of the failing segment is dropped.
C18_ParseFailureSwallowed ==
    (extracted # Null /\ PayloadFails) =>
        outcome = Outcome([cleanText |-> sent.answer,
                           usage |-> ParseOrNull(sent.usagePayload),
                           summary |-> IF sent.summaryPayload = Absent THEN Null
                                       ELSE ParseOrNull(sent.summaryPayload)])

\* C17: what the client ends with after a completed stream depends on the
\* bytes of the stream only, not on where the reads ended.
C17_SplitIndependent ==
    extracted # Null =>
        /\ readText = DecodeBytes(wire)
        /\ extracted = ExtractSentinelsText(DecodeBytes(wire))
        /\ outcome = Outcome(ExtractSentinelsText(DecodeBytes(wire)))

\* A completed stream with both trailers, read with one read ending inside a
\* marker, one inside a payload and one inside a character.
C17_Witness ==
    /\ extracted # Null
    /\ extracted.usage # Null
    /\ extracted.summary # Null
    /\ \E c \in cuts : wire[c] = "<!--"
    /\ \E c \in cuts : wire[c] = "{"
    /\ \E c \in cuts : wire[c] = "c3"

\* C19: when the generation call fails, before any token or in the middle of
\* the stream, no trailer is in the stream, and the turn ends with the error
\* shown, the message list back to its value before the submit and nothing
\* of the response applied to the stored usage and summary.
C19_GenerationFailureIsError ==
    [][/\ Logged("generate", "fail")' =>
            /\ pc' \in {"failed", "errored"}
            /\ SegmentsOf("usage")' = {}
            /\ SegmentsOf("summary")' = {}
       /\ (Logged("generate", "fail") /\ pc' # pc) =>
            /\ pc' = "idle"
            /\ error'
            /\ ~isLoading'
            /\ messages' = subMessages
            /\ <<summary, summaryMsgCount, tokenUsage>>' =
                   <<summary, summaryMsgCount, tokenUsage>>
      ]_vars

\* The turn ended with the error after a part of the answer had been read.
C19_Witness ==
    /\ pc = "idle"
    /\ error
    /\ ~isLoading
    /\ fullText # <<>>
    /\ \A i \in 1..Len(fullText) : fullText[i].kind = "text"
    /\ messages = subMessages

C21_OneRequestPerConversation ==
    \A c \in 1..MaxConvs : Cardinality({r \in inFlight : r.conv = c}) <= 1

\* The request fails the input validation of its route.
FailsValidation(r) ==
    \/ /\ r.route = "chat"
       /\ \/ Falsy(r.in.sessionId)
          \/ ~r.in.messages.given
          \/ r.in.messages.roles = <<>>
          \/ r.in.messages.roles[Len(r.in.messages.roles)] # "user"
    \/ /\ r.route = "upload"
       /\ \/ ~r.in.file
          \/ Falsy(r.in.sessionId)
          \/ r.in.ext \notin SupportedExtensions
          \/ r.in.text \in {"", "SP"}
    \/ /\ r.route = "session"
       /\ Falsy(r.in.sessionId)

\* C22: a request that fails input validation gets an error response and no
\* call to the embedding service, the vector index or the completion service
\* was made for it.
C22_ValidationBeforeCalls ==
    (vReq # Null /\ FailsValidation(vReq)) =>
        /\ vResp.status >= 400
        /\ vResp.calls = <<>>

\* An upload with file and sessionId but an unsupported extension.
C22_Witness ==
    /\ vReq # Null
    /\ vReq.route = "upload"
    /\ vReq.in.file
    /\ vReq.in.sessionId = "s1"
    /\ vReq.in.ext = "exe"
    /\ vResp = Response(500, <<>>)

\* C23: the usage trailer carries the sums of the prompt tokens and of the
\* completion tokens of the summarization, reformulation and generation calls
\* of the request, their sum as total, and a call that was skipped counts zero.
C23_UsageIsSumOfCalls ==
    \A i \in SegmentsOf("usage") :
        /\ stream[i].prompt =
               summaryTokens.prompt + reformTokens.prompt + answerTokens.prompt
        /\ stream[i].completion =
               summaryTokens.completion + reformTokens.completion
               + answerTokens.completion
        /\ stream[i].total = stream[i].prompt + stream[i].completion
        /\ ~Logged("summarize", "end") => summaryTokens = ZeroTokens
        /\ ~Logged("reformulate", "end") => reformTokens = ZeroTokens

\* A request whose three calls all reported tokens.
C23_Witness ==
    /\ pc = "closed"
    /\ Logged("summarize", "end")
    /\ Logged("reformulate", "end")
    /\ summaryTokens = SomeTokens
    /\ reformTokens = SomeTokens
    /\ answerTokens = SomeTokens
    /\ \E i \in SegmentsOf("usage") :
         stream[i].prompt = 6 /\ stream[i].completion = 3 /\ stream[i].total = 9

\* The chunker has returned.
Chunked == chunkOut # Null
ParentTextsOut == [k \in 1..Len(chunkOut.parents) |-> chunkOut.parents[k].text]
ChildTextsOut == [k \in 1..Len(chunkOut.children) |-> chunkOut.children[k].text]

\* C24: every parent chunk is at most parentSize + parentOverlap characters
\* long and every child chunk at most childSize + childOverlap, for every
\* text and every positive size and overlap.
C24_ChunkSizeBound ==
    Chunked =>
        /\ \A k \in 1..Len(ParentTextsOut) :
             Len(ParentTextsOut[k]) <= chunkIn.parentSize + chunkIn.parentOverlap
        /\ \A k \in 1..Len(ChildTextsOut) :
             Len(ChildTextsOut[k]) <= chunkIn.childSize + chunkIn.childOverlap

\* The characters of a text that are not white space.
Ink(text) == SelectSeq(text, LAMBDA c : c \notin WhiteSpace)

\* The chunks without their overlap prefix: chunk k > 1 without the trailing
\* overlap characters of what chunk k-1 is without its own prefix, and the
\* space that joins them.
RECURSIVE OwnTexts(_, _, _)
OwnTexts(texts, overlap, own) ==
    IF Len(own) = Len(texts) THEN own
    ELSE LET k == Len(own) + 1
             t == texts[k]
         IN  OwnTexts(texts, overlap,
                      Append(own,
                             IF k = 1 THEN t
                             ELSE SubSeq(t, Min(overlap, Len(own[k - 1])) + 2,
                                         Len(t))))

RECURSIVE Flatten(_)
Flatten(texts) == IF texts = <<>> THEN <<>> ELSE Head(texts) \o Flatten(Tail(texts))

\* C25: the parent chunks without their overlap prefixes, concatenated, have
\* the non-white-space characters of the input text, in order, each once.
C25_ChunkCoverage ==
    Chunked =>
        Ink(Flatten(OwnTexts(ParentTextsOut, chunkIn.parentOverlap, <<>>)))
            = Ink(chunkIn.text)

\* The children of the parent with this id, in the order of the result.
ChildrenWith(id) == SelectSeq(chunkOut.children, LAMBDA c : c.parentId = id)

\* C26: every child's parentId is the id of a parent of the result, every
\* parent with a non-empty text has a child, children[k].index = k, and the
\* childIndex of the children of one parent are 0..m-1 in order.
C26_ParentChildLinkage ==
    Chunked =>
        LET parents == chunkOut.parents
            children == chunkOut.children
        IN  /\ \A k \in 1..Len(children) :
                 \E j \in 1..Len(parents) : children[k].parentId = parents[j].id
            /\ \A j \in 1..Len(parents) :
                 parents[j].text # <<>> => ChildrenWith(parents[j].id) # <<>>
            /\ \A k \in 1..Len(children) : children[k].index = k - 1
            /\ \A j \in 1..Len(parents) :
                 LET own == ChildrenWith(parents[j].id)
                 IN  \A ci \in 1..Len(own) : own[ci].childIndex = ci - 1

\* C27: no chunk of the result, parent or child, is empty or only white
\* space.
C27_NoBlankChunk ==
    Chunked =>
        /\ \A k \in 1..Len(ParentTextsOut) : Trim(ParentTextsOut[k]) # <<>>
        /\ \A k \in 1..Len(ChildTextsOut) : Trim(ChildTextsOut[k]) # <<>>

\* C28: the matches of one search come from one session namespace; a match
\* is left out of the context only when its parent text is already there, so
\* the parent text of every match is one of the assembled parent texts, also
\* with the vectors of two documents in the namespace.
C28_DedupKeepsDistinctParents ==
    ctxDone =>
        \A i \in 1..Len(ctxResults) :
            \E k \in 1..Len(ctxParentTexts) :
                ctxParentTexts[k] = ctxResults[i].parentText

\* The conversation as handleClearHistory leaves it.
HistoryCleared ==
    /\ messages = <<>>
    /\ summary = NoSummary
    /\ summaryMsgCount = 0
    /\ tokenUsage = ZeroUsage

\* C29: once the history is cleared, the messages stay empty and the summary,
\* summaryMsgCount and token usage stay reset by every step that is not the
\* next submit, also when the history was cleared while the response of a
\* request was being read.
C29_ClearedUntilSubmit ==
    [][(HistoryCleared /\ ~(~isLoading /\ isLoading')) => HistoryCleared']_vars

\* The uploads of a namespace that were answered with this status.
Answered(namespace, status) ==
    {r \in uploadResponses : r.session = namespace /\ r.status = status}

\* C30: when no upload is being handled, the vectors of a namespace are
\* exactly those of the uploads to it that were answered 200; an upload that
\* was answered with an error has no vector in it.
C30_FailedUploadLeavesNothing ==
    uploading = Null =>
        \A s \in Sessions :
            index[s] = UNION {VectorsOf(r.docId, r.fileName, r.n) :
                                r \in Answered(s, 200)}

TypeOK ==
    /\ Len(messages) <= MaxMsgs
    /\ summaryMsgCount \in 0..MaxMsgs
    /\ pc \in {"idle", "request", "summarize", "reformulate", "reformulating",
               "embed", "query", "generate", "streaming", "closed", "errored",
               "cancelled", "aborted",
               "failed"}
====
